---- MODULE Spec2Model ----
(***************************************************************************)
(* A model of src/main.py: the redirect-chain walker (check_url_status),   *)
(* the server-name classifier (get_server_name_advanced) with its IP       *)
(* oracle (resolve_ip_async, is_akamai_ip), and the batch orchestrator     *)
(* (websocket_endpoint with its bound_check tasks).                        *)
(*                                                                         *)
(* Strings the code inspects (header values, host names, input lines) are  *)
(* sequences of one-character strings, so that lower(), capitalize(),      *)
(* strip(), startswith() and the substring tests are computed.             *)
(***************************************************************************)
EXTENDS Integers, Sequences, FiniteSets, TLC

\* ------------------------------------------------------------------------
\* Program constants
\* ------------------------------------------------------------------------
MAX_REDIRECTS == 15

CONCURRENCY_LIMIT == 25

THROTTLE_OVER == 50

\* ------------------------------------------------------------------------
\* Bounds of the model
\* ------------------------------------------------------------------------
\* A walk's environment answers a redirect with the routine redirect of the
\* requested URL; at most MaxDetours times per walk it answers with another
\* redirect that keeps the walk going.  Responses that end the walk are
\* free at every hop.
MaxDetours == 2

\* In the small batches, at most MaxOvertake walks of a batch finish while a
\* walk launched before them is still in flight.
MaxOvertake == 2

\* The longest input of the exhaustively enumerated line lists
MaxLines == 4

\* ------------------------------------------------------------------------
\* Strings as character sequences
\* ------------------------------------------------------------------------
UpperLetters ==
  <<"A","B","C","D","E","F","G","H","I","J","K","L","M",
    "N","O","P","Q","R","S","T","U","V","W","X","Y","Z">>

LowerLetters ==
  <<"a","b","c","d","e","f","g","h","i","j","k","l","m",
    "n","o","p","q","r","s","t","u","v","w","x","y","z">>

LowerChar(c) ==
  IF \E i \in 1..26 : UpperLetters[i] = c
  THEN LowerLetters[CHOOSE i \in 1..26 : UpperLetters[i] = c]
  ELSE c

UpperChar(c) ==
  IF \E i \in 1..26 : LowerLetters[i] = c
  THEN UpperLetters[CHOOSE i \in 1..26 : LowerLetters[i] = c]
  ELSE c

\* str.lower()
Lower(s) == [i \in 1..Len(s) |-> LowerChar(s[i])]

\* str.capitalize(): first character upper-cased, the rest lower-cased
Capitalize(s) ==
  IF s = <<>> THEN s ELSE <<UpperChar(s[1])>> \o Lower(Tail(s))

\* needle in s
Contains(s, needle) ==
  \E i \in 1..(Len(s) - Len(needle) + 1) :
     SubSeq(s, i, i + Len(needle) - 1) = needle

\* s.startswith(prefix)
StartsWith(s, prefix) ==
  /\ Len(s) >= Len(prefix)
  /\ SubSeq(s, 1, Len(prefix)) = prefix

\* ------------------------------------------------------------------------
\* Labels and texts
\* ------------------------------------------------------------------------
L_Akamai == <<"A","k","a","m","a","i">>

L_ApacheAEM == <<"A","p","a","c","h","e"," ","(","A","E","M",")">>

L_Unknown == <<"U","n","k","n","o","w","n">>

L_NA == <<"N","/","A">>

W_akamai == <<"a","k","a","m","a","i">>

W_ghost == <<"g","h","o","s","t">>

W_apache == <<"a","p","a","c","h","e">>

W_bmw == <<"b","m","w">>

W_mini == <<"m","i","n","i">>

W_clientlibs == <<"/","e","t","c",".","c","l","i","e","n","t","l","i","b","s">>

T_cacheHit == <<"c","d","n","-","c","a","c","h","e",";"," ","d","e","s","c","=","H","I","T">>

T_cacheMiss == <<"c","d","n","-","c","a","c","h","e",";"," ","d","e","s","c","=","M","I","S","S">>

\* ------------------------------------------------------------------------
\* IP range oracle
\* ------------------------------------------------------------------------
\* An IPv4 address is its four octets; a CIDR block is <<octets, prefix>>.
AKAMAI_IP_RANGES ==
  << <<(<<23, 192, 0, 0>>), 11>>,
     <<(<<104, 64, 0, 0>>), 10>>,
     <<(<<184, 24, 0, 0>>), 13>> >>

NoIp == <<>>

\* The address as two 16-bit halves (the model checker's integers are 32-bit
\* signed, the address is 32-bit unsigned).
HighHalf(o) == o[1] * 256 + o[2]

LowHalf(o) == o[3] * 256 + o[4]

RECURSIVE Pow2(_)
Pow2(n) == IF n = 0 THEN 1 ELSE 2 * Pow2(n - 1)

\* addr in ip_network(cidr): the first cidr[2] bits agree
InNetwork(ip, cidr) ==
  IF cidr[2] <= 16
  THEN (HighHalf(ip) \div Pow2(16 - cidr[2])) = (HighHalf(cidr[1]) \div Pow2(16 - cidr[2]))
  ELSE /\ HighHalf(ip) = HighHalf(cidr[1])
       /\ (LowHalf(ip) \div Pow2(32 - cidr[2])) = (LowHalf(cidr[1]) \div Pow2(32 - cidr[2]))

\* is_akamai_ip: False for no IP and for a malformed one
is_akamai_ip(ip) ==
  IF ip = NoIp THEN FALSE
  ELSE IF Len(ip) # 4 \/ \E i \in 1..Len(ip) : ip[i] \notin 0..255 THEN FALSE
  ELSE \E k \in 1..Len(AKAMAI_IP_RANGES) : InNetwork(ip, AKAMAI_IP_RANGES[k])

\* resolve_ip_async, run without another task in between: the hostname, the
\* cache and the DNS collaborator's answer (NoIp: the lookup failed) give
\* the IP returned and the cache afterwards.
resolve_ip(hostname, cache, dns) ==
  IF hostname = <<>> THEN [ip |-> NoIp, cache |-> cache]
  ELSE IF hostname \in DOMAIN cache THEN [ip |-> cache[hostname], cache |-> cache]
  ELSE IF dns # NoIp
       THEN [ip |-> dns,
             cache |-> [h \in DOMAIN cache \cup {hostname} |->
                          IF h = hostname THEN dns ELSE cache[h]]]
       ELSE [ip |-> NoIp, cache |-> cache]

\* ------------------------------------------------------------------------
\* Server fingerprint classifier
\* ------------------------------------------------------------------------
\* headers: a function from lower-case header names to values.
HeaderGet(headers, name) ==
  IF name \in DOMAIN headers THEN headers[name] ELSE <<>>

\* the host rule of lines 62-64
host_override(headers, hostname) ==
  /\ hostname # <<>>
  /\ Contains(Lower(hostname), W_bmw) \/ Contains(Lower(hostname), W_mini)
  /\ "cache-control" \in DOMAIN headers

\* server_value of line 65
ServerValue(headers) == Lower(HeaderGet(headers, "server"))

\* the call goes on to the secondary signals and to resolve_ip_async
\* (lines 71-77)
ReachesResolve(headers, hostname) ==
  ~host_override(headers, hostname) /\ ServerValue(headers) = <<>>

\* get_server_name_advanced: the label and the IP cache afterwards
get_server_name_advanced(headers, hostname, cache, dns) ==
  LET server_value == ServerValue(headers)
      server_timing == HeaderGet(headers, "server-timing")
      has_akamai_cache ==
        Contains(server_timing, T_cacheHit) \/ Contains(server_timing, T_cacheMiss)
      has_akamai_request_id == "x-akamai-request-id" \in DOMAIN headers
      has_dispatcher ==
        "x-dispatcher" \in DOMAIN headers \/ "x-aem-instance" \in DOMAIN headers
      has_aem_paths ==
        \E h \in DOMAIN headers \cap {"link", "baqend-tags"} :
           Contains(headers[h], W_clientlibs)
      res == resolve_ip(hostname, cache, dns)
      is_akamai == is_akamai_ip(res.ip)
  IN
  IF host_override(headers, hostname)
  THEN [label |-> L_ApacheAEM, cache |-> cache]
  ELSE IF server_value # <<>>
  THEN [label |-> IF Contains(server_value, W_akamai) \/ Contains(server_value, W_ghost)
                  THEN L_Akamai
                  ELSE IF Contains(server_value, W_apache) THEN L_ApacheAEM
                  ELSE Capitalize(server_value),
        cache |-> cache]
  ELSE [label |-> IF has_akamai_cache \/ has_akamai_request_id
                     \/ (server_timing # <<>> /\ is_akamai)
                  THEN (IF has_aem_paths \/ has_dispatcher THEN L_ApacheAEM ELSE L_Akamai)
                  ELSE IF has_dispatcher \/ has_aem_paths THEN L_ApacheAEM
                  ELSE IF is_akamai THEN L_Akamai
                  ELSE L_Unknown,
        cache |-> res.cache]

\* ------------------------------------------------------------------------
\* URLs of the walker
\* ------------------------------------------------------------------------
\* A URL is its host and its path ("" when the string has none).
H_a == <<"a">>

H_b == <<"b">>

Url(h, p) == [host |-> h, path |-> p]

NoLocation == [form |-> "absent"]

AbsLocation(u) == [form |-> "absolute", url |-> u]

RelLocation(p) == [form |-> "relative", path |-> p]

\* str(response.url): the HTTP client's URL of the request, with the host in
\* lower case and an empty path written "/"
EffectiveUrl(u) ==
  [host |-> Lower(u.host), path |-> IF u.path = "" THEN "/" ELSE u.path]

\* urljoin(base, target) for an absolute target and for an absolute-path one
urljoin(base, target) ==
  IF target.form = "absolute" THEN target.url
  ELSE [host |-> base.host, path |-> target.path]

\* response.is_redirect: any 3xx status, with or without a Location header
is_redirect(status) == status >= 300 /\ status <= 399

\* response.raise_for_status() raises
raises_for_status(status) == status >= 400

\* ------------------------------------------------------------------------
\* The environment of a walk
\* ------------------------------------------------------------------------
StartUrls == {Url(H_a, ""), Url(H_a, "/"), Url(H_b, "/")}

Statuses == {200, 301, 404}

Locations ==
  {NoLocation, AbsLocation(Url(H_a, "")), AbsLocation(Url(H_a, "/")),
   AbsLocation(Url(H_b, "/")), RelLocation("/x")}

\* What each host sends: a names itself in a Server header, b sends nothing
\* the classifier reads, so that b is classified by its address.
HostHeaders(h) ==
  IF h = H_a THEN [n \in {"server"} |-> <<"n","g","i","n","x">>]
  ELSE [n \in {} |-> <<>>]

\* The DNS collaborator's answer during a walk
WalkDns(h) == IF h = H_b THEN <<184, 24, 5, 1>> ELSE <<93, 184, 216, 34>>

\* The routine redirect of a URL: to the root of the other host
RoutineLocation(u) ==
  AbsLocation(Url(IF Lower(u.host) = H_a THEN H_b ELSE H_a, "/"))

OtherMessages == {"Invalid port: 'abc'"}

\* What one GET can end in
Outcomes ==
  {[kind |-> "timeout"], [kind |-> "network"]}
  \cup {[kind |-> "other", msg |-> m] : m \in OtherMessages}
  \cup {[kind |-> "response", status |-> s, location |-> l] :
          s \in Statuses, l \in Locations}

\* ------------------------------------------------------------------------
\* check_url_status
\* ------------------------------------------------------------------------
C_OK == "OK"

C_RedirectChain == "Redirect Chain"

C_Timeout == "Request timed out after 60s"

C_Network == "Request failed (Network/DNS error)"

C_MissingLocation == "Redirect missing location header"

C_SelfLoop == "URL redirects to itself in a loop"

C_TooMany == "Too many redirects"

C_Unexpected == "An unexpected error occurred"

\* f"HTTP Error: {status}"
HttpErrorComment(status) ==
  CASE status = 404 -> "HTTP Error: 404"
    [] status = 500 -> "HTTP Error: 500"
    [] status = 503 -> "HTTP Error: 503"
    [] OTHER -> "HTTP Error: other"

Raise(type, msg) == [type |-> type, msg |-> msg, status |-> 0, url |-> Url(<<>>, "")]

RaiseStatus(status, u) ==
  [type |-> "HTTPStatusError", msg |-> "", status |-> status, url |-> u]

HopInfo(u, status, server_name) ==
  [url |-> u, status |-> status, serverName |-> server_name]

\* the return of the try block (lines 124-130)
SuccessResult(u, chain) ==
  [url |-> u,
   status |-> IF chain # <<>> THEN chain[1].status ELSE "None",
   comment |-> IF Len(chain) > 1 THEN C_RedirectChain ELSE C_OK,
   serverName |-> IF chain # <<>> THEN chain[1].serverName ELSE L_NA,
   redirectChain |-> chain]

\* the chain the except block leaves (lines 136-139)
ChainAfterError(chain, exc) ==
  IF exc.type = "HTTPStatusError"
  THEN Append(chain, HopInfo(exc.url, exc.status, L_NA))
  ELSE chain

\* the comment the except block chooses (lines 133-143)
ErrorComment(exc) ==
  IF exc.type = "TimeoutException" THEN C_Timeout
  ELSE IF exc.type = "HTTPStatusError" THEN HttpErrorComment(exc.status)
  ELSE IF exc.type = "RequestError" THEN C_Network
  ELSE exc.msg

\* FailureResult with status and serverName taken from the last hop
FailureResult_LastHop(u, chain, exc) ==
  LET chain2 == ChainAfterError(chain, exc) IN
  [url |-> u,
   status |-> IF chain2 # <<>> THEN chain2[Len(chain2)].status ELSE "Error",
   comment |-> ErrorComment(exc),
   serverName |-> IF chain2 # <<>> THEN chain2[Len(chain2)].serverName ELSE L_NA,
   redirectChain |-> chain2]

\* the return of the except block (lines 145-151); the chain is read after
\* the failing hop was appended
FailureResult(u, chain, exc) ==
  LET chain2 == ChainAfterError(chain, exc) IN
  [url |-> u,
   status |-> IF chain2 # <<>> THEN chain2[1].status ELSE "Error",
   comment |-> ErrorComment(exc),
   serverName |-> IF chain2 # <<>> THEN chain2[1].serverName ELSE L_NA,
   redirectChain |-> chain2]

\* the check after the loop (lines 121-130)
\* TooMany of a check that lets a chain of MAX_REDIRECTS hops pass
TooMany_Strict(chain) == Len(chain) > MAX_REDIRECTS

TooMany(chain) == Len(chain) >= MAX_REDIRECTS

AfterLoop(u, chain) ==
  IF TooMany(chain)
  THEN FailureResult(u, chain, Raise("Exception", C_TooMany))
  ELSE SuccessResult(u, chain)

\* IsSelfRedirect comparing with the effective URL of the response
IsSelfRedirect_Effective(next_url, cur, effective) == next_url = effective

\* the loop test of a redirect (line 114)
IsSelfRedirect(next_url, cur, effective) == next_url = cur

\* ------------------------------------------------------------------------
\* Input lines of a batch (websocket_endpoint)
\* ------------------------------------------------------------------------
Whitespace == {" ", "\t"}

RECURSIVE LStrip(_)
LStrip(s) == IF s # <<>> /\ s[1] \in Whitespace THEN LStrip(Tail(s)) ELSE s

RECURSIVE RStrip(_)
RStrip(s) ==
  IF s # <<>> /\ s[Len(s)] \in Whitespace
  THEN RStrip(SubSeq(s, 1, Len(s) - 1)) ELSE s

\* str.strip()
Strip(s) == RStrip(LStrip(s))

S_http == <<"h","t","t","p",":","/","/">>

S_https == <<"h","t","t","p","s",":","/","/">>

NonEmpty(u) == u # <<>>

\* dict.fromkeys over a sequence: its distinct elements, each at the place of
\* its first occurrence
FromKeys(seq) ==
  LET indexed == [i \in 1..Len(seq) |-> <<i, seq[i]>>]
      IsFirst(p) == \A j \in 1..(p[1] - 1) : seq[j] # p[2]
      firsts == SelectSeq(indexed, IsFirst)
  IN [k \in 1..Len(firsts) |-> firsts[k][2]]

\* cleaned_urls without the deduplication
cleaned_urls_NoDedup(urls) ==
  SelectSeq([i \in 1..Len(urls) |-> Strip(urls[i])], NonEmpty)

\* list(dict.fromkeys(u.strip() for u in urls if u.strip()))  (line 173)
cleaned_urls(urls) ==
  FromKeys(SelectSeq([i \in 1..Len(urls) |-> Strip(urls[i])], NonEmpty))

\* the URL a task is created with (lines 176-177)
\* WithScheme with http:// as the default scheme
WithScheme_Http(u) ==
  IF StartsWith(u, S_http) \/ StartsWith(u, S_https) THEN u ELSE S_http \o u

\* lines 176-177: an entry without a scheme gets https://
WithScheme(u) ==
  IF StartsWith(u, S_http) \/ StartsWith(u, S_https) THEN u ELSE S_https \o u

\* should_throttle (line 161)
ShouldThrottle(urls) == Len(urls) > THROTTLE_OVER

\* ------------------------------------------------------------------------
\* The environment of a batch
\* ------------------------------------------------------------------------
Sessions == {1, 2}

Digits == <<"0","1","2","3","4","5","6","7","8","9">>

\* the i-th of 99 distinct host names
Name(i) == <<"u", Digits[(i \div 10) + 1], Digits[(i % 10) + 1]>>

Names(n) == [i \in 1..n |-> Name(i)]

Repeat(line, n) == [i \in 1..n |-> line]

X_a == <<"a">>

X_b == <<"b">>

SampleLines ==
  {<<>>, <<" ">>, X_a, <<" ">> \o X_a, X_a \o <<" ", "\t">>, X_b,
   S_https \o X_a, S_http \o X_a, <<" ">> \o S_https \o X_b}

RECURSIVE SeqsUpTo(_, _)
SeqsUpTo(S, n) ==
  IF n = 0 THEN {<<>>}
  ELSE LET shorter == SeqsUpTo(S, n - 1)
       IN shorter \cup {Append(q, x) : q \in {r \in shorter : Len(r) = n - 1}, x \in S}

\* d distinct names, then r padded repeats of the first name, then blank lines,
\* t lines in all
Pattern(t, d, r) ==
  Names(d) \o Repeat(<<" ">> \o Name(1) \o <<" ">>, r) \o Repeat(<<" ">>, t - d - r)

NearThreshold ==
  LET T == (THROTTLE_OVER - 1)..(THROTTLE_OVER + 1)
      D == {0, 1, 2, THROTTLE_OVER - 1, THROTTLE_OVER, THROTTLE_OVER + 1}
      R == {0, 1, 2, THROTTLE_OVER - 1, THROTTLE_OVER}
  IN {Pattern(x[1], x[2], x[3]) : x \in {y \in T \X D \X R : y[2] + y[3] <= y[1]}}

\* the line lists of the cleaning specification
CleanInputs == SeqsUpTo(SampleLines, MaxLines) \cup NearThreshold

\* the line lists of the small batches: the repeated and padded entries, a
\* bare entry with its explicit form, no entry at all, and two entries among
\* more than THROTTLE_OVER lines
BatchInputs ==
  {<<X_a, X_a, <<" ">> \o X_a \o <<" ">>, X_b>>,
   <<X_a, X_b, S_https \o X_a>>,
   <<<<" ">>, <<>>>>,
   Repeat(<<>>, THROTTLE_OVER) \o <<X_a, X_b>>}

\* a batch of one more walk than the limiter admits
OverLimitInput == Names(CONCURRENCY_LIMIT + 1)

\* one entry among more than THROTTLE_OVER lines
ThrottledInput == Repeat(<<" ">>, THROTTLE_OVER) \o <<X_b>>

\* whether the walk of a URL ends in a failure (the environment's choice,
\* fixed per URL)
WalkFails(u) == u[Len(u)] \in {"b", "1", "3", "5", "7", "9"}

\* ------------------------------------------------------------------------
\* State
\* ------------------------------------------------------------------------
VARIABLES
  \* one walk (check_url_status)
  url,             \* the URL the walk was started with
  current_url,     \* the URL of the next request
  redirect_chain,  \* the hop records so far
  iteration,       \* completed passes of the for loop
  wpc,             \* "request": awaiting client.get; "done": returned
  result,          \* the returned UrlResult
  ip_cache,        \* the process-wide hostname -> IP map
  \* history of the walk, kept for the properties
  requests,        \* GET requests issued
  responses,       \* GET requests that completed with a response
  last_request,    \* the URL of the latest request
  last_outcome,    \* what the latest request ended in
  request_log,     \* the URLs requested, in request order
  detours          \* redirects so far that were not the routine one

walkVars ==
  <<url, current_url, redirect_chain, iteration, wpc, result, ip_cache,
    requests, responses, last_request, last_outcome, request_log, detours>>

\* ------------------------------------------------------------------------
\* State of the batch sessions (websocket_endpoint), one entry per session
\* ------------------------------------------------------------------------
VARIABLES
  data,            \* the lines of the message the peer sends (data.splitlines())
  hpc,             \* the handler: "off", "idle", "accepted", "streaming", "closed";
                   \* "escaped" when an exception left it
  client_state,    \* websocket.client_state.name
  peer,            \* the other end of the channel: "open" or "gone"
  should_throttle, \* line 161
  cleaned,         \* cleaned_urls (line 173)
  tasks,           \* the bound_check tasks in creation order
  semaphore,       \* the value of the session's asyncio.Semaphore
  completed,       \* indices of the finished tasks, in completion order
  consumed,        \* how many of them the as_completed loop has taken
  sent,            \* the messages delivered to the peer
  overtakes_left   \* out-of-order completions the environment may still make

batchVars ==
  <<data, hpc, client_state, peer, should_throttle, cleaned, tasks, semaphore,
    completed, consumed, sent, overtakes_left>>

\* ------------------------------------------------------------------------
\* State of the classifier calls (get_server_name_advanced), one entry per
\* call; the calls are made by different walks on responses of one URL
\* ------------------------------------------------------------------------
VARIABLES
  headers_in,      \* the response headers the calls are given
  host_in,         \* the host of the effective URL the calls are given
  cpc,             \* "off"; "start": called; "lookup": awaiting the DNS
                   \* collaborator (line 44); "done": returned
  label,           \* the label a call returned
  cache_seen,      \* the IP cache as it was when the call was made
  lookup_ip,       \* what the call's DNS lookup answered (NoIp: it failed)
  ret_ip,          \* what resolve_ip_async returned to the call
  looked_up        \* the hostnames of the DNS lookups that have completed

callVars ==
  <<headers_in, host_in, cpc, label, cache_seen, lookup_ip, ret_ip, looked_up>>

\* the walker's variables other than the IP cache
walkOnly ==
  <<url, current_url, redirect_chain, iteration, wpc, result,
    requests, responses, last_request, last_outcome, request_log, detours>>

NoResult == [url |-> Url(<<>>, ""), status |-> "None", comment |-> "",
             serverName |-> <<>>, redirectChain |-> <<>>]

NoOutcome == [kind |-> "none"]

EmptyCache == [h \in {} |-> NoIp]

\* a walk about to start at u in a process whose IP cache is `cache`
WalkStartsWith(u, cache) ==
  /\ url = u
  /\ current_url = url
  /\ redirect_chain = <<>>
  /\ iteration = 0
  /\ wpc = (IF u \in StartUrls THEN "request" ELSE "idle")
  /\ result = NoResult
  /\ ip_cache = cache
  /\ requests = 0
  /\ responses = 0
  /\ last_request = url
  /\ last_outcome = NoOutcome
  /\ request_log = <<>>
  /\ detours = 0

WalkStarts(u) == WalkStartsWith(u, EmptyCache)

\* ------------------------------------------------------------------------
\* The walk, one pass of the loop per action
\* ------------------------------------------------------------------------
Returned(res) ==
  /\ wpc' = "done"
  /\ result' = res
  /\ redirect_chain' = res.redirectChain

History(out, answered) ==
  /\ requests' = requests + 1
  /\ responses' = responses + (IF answered THEN 1 ELSE 0)
  /\ last_request' = current_url
  /\ last_outcome' = out
  /\ request_log' = Append(request_log, current_url)

\* client.get raises: the except block returns (lines 98, 132-151)
GetRaises ==
  /\ wpc = "request"
  /\ \E out \in {o \in Outcomes : o.kind # "response"} :
       /\ History(out, FALSE)
       /\ Returned(FailureResult(url, redirect_chain,
            CASE out.kind = "timeout" -> Raise("TimeoutException", "")
              [] out.kind = "network" -> Raise("RequestError", "")
              [] OTHER -> Raise("Exception", out.msg)))
  /\ UNCHANGED <<url, current_url, iteration, ip_cache, detours>>
  /\ UNCHANGED <<batchVars, callVars>>

\* the hop record of a response (lines 99-106) and the cache afterwards
Classified(out) ==
  LET effective == EffectiveUrl(current_url)
      cls == get_server_name_advanced(HostHeaders(effective.host), effective.host,
                                      ip_cache, WalkDns(effective.host))
  IN [hop |-> HopInfo(effective, out.status, cls.label), cache |-> cls.cache]

\* a response that is no redirect: raise_for_status, break, the check after
\* the loop (lines 117-130).  The code does not read the Location header of
\* such a response, so only responses without one are enumerated.
GetFinal ==
  /\ wpc = "request"
  /\ \E out \in {o \in Outcomes : o.kind = "response"} :
       LET c == Classified(out)
           chain == Append(redirect_chain, c.hop)
       IN /\ ~is_redirect(out.status)
          /\ out.location = NoLocation
          /\ History(out, TRUE)
          /\ ip_cache' = c.cache
          /\ IF raises_for_status(out.status)
             THEN Returned(FailureResult(url, chain, RaiseStatus(out.status, c.hop.url)))
             ELSE Returned(AfterLoop(url, chain))
  /\ UNCHANGED <<url, current_url, iteration, detours>>
  /\ UNCHANGED <<batchVars, callVars>>

\* a redirect that ends the walk: no Location, or a Location that resolves
\* to the URL just requested (lines 108-115)
GetRedirectFails ==
  /\ wpc = "request"
  /\ \E out \in {o \in Outcomes : o.kind = "response"} :
       LET c == Classified(out)
           chain == Append(redirect_chain, c.hop)
       IN /\ is_redirect(out.status)
          /\ IF out.location = NoLocation THEN TRUE
             ELSE IsSelfRedirect(urljoin(c.hop.url, out.location), current_url, c.hop.url)
          /\ History(out, TRUE)
          /\ ip_cache' = c.cache
          /\ Returned(FailureResult(url, chain,
               Raise("Exception", IF out.location = NoLocation
                                  THEN C_MissingLocation ELSE C_SelfLoop)))
  /\ UNCHANGED <<url, current_url, iteration, detours>>
  /\ UNCHANGED <<batchVars, callVars>>

\* a redirect that is followed (lines 108-116); after the last pass the loop
\* is exhausted and the check after it runs (lines 121-130)
GetRedirect ==
  /\ wpc = "request"
  /\ \E out \in {o \in Outcomes : o.kind = "response"} :
       LET c == Classified(out)
           chain == Append(redirect_chain, c.hop)
           next_url == IF out.location = NoLocation THEN current_url
                       ELSE urljoin(c.hop.url, out.location)
           routine == out.status = 301 /\ out.location = RoutineLocation(current_url)
       IN /\ is_redirect(out.status)
          /\ out.location # NoLocation
          /\ ~IsSelfRedirect(next_url, current_url, c.hop.url)
          /\ routine \/ detours < MaxDetours
          /\ detours' = detours + (IF routine THEN 0 ELSE 1)
          /\ History(out, TRUE)
          /\ ip_cache' = c.cache
          /\ iteration' = iteration + 1
          /\ current_url' = next_url
          /\ IF iteration + 1 < MAX_REDIRECTS
             THEN /\ redirect_chain' = chain
                  /\ UNCHANGED <<wpc, result>>
             ELSE Returned(AfterLoop(url, chain))
  /\ UNCHANGED url
  /\ UNCHANGED <<batchVars, callVars>>

NextWalk == GetRaises \/ GetFinal \/ GetRedirectFails \/ GetRedirect

\* the sessions of `active` are about to be accepted and will receive
\* input[s]; the others stay off
BatchStarts(active, input, overtakes) ==
  /\ data = [s \in Sessions |-> IF s \in active THEN input[s] ELSE <<>>]
  /\ hpc = [s \in Sessions |-> IF s \in active THEN "idle" ELSE "off"]
  /\ client_state = [s \in Sessions |-> "CONNECTING"]
  /\ peer = [s \in Sessions |-> "open"]
  /\ should_throttle = [s \in Sessions |-> FALSE]
  /\ cleaned = [s \in Sessions |-> <<>>]
  /\ tasks = [s \in Sessions |-> <<>>]
  /\ semaphore = [s \in Sessions |-> 0]
  /\ completed = [s \in Sessions |-> <<>>]
  /\ consumed = [s \in Sessions |-> 0]
  /\ sent = [s \in Sessions |-> <<>>]
  /\ overtakes_left = [s \in Sessions |-> overtakes]

Holding(t) == t.pc \in {"sleep", "walk"}

\* the tasks of session s that hold a slot of its limiter
InFlight(s) == {i \in 1..Len(tasks[s]) : Holding(tasks[s][i])}

ResultMessage(t) ==
  [type |-> "result", url |-> t.url,
   comment |-> IF WalkFails(t.url) THEN C_Network ELSE C_OK]

DoneMessage == [type |-> "done"]

\* ------------------------------------------------------------------------
\* The handler
\* ------------------------------------------------------------------------
\* await websocket.accept()  (line 155)
Accept(s) ==
  /\ hpc[s] = "idle"
  /\ hpc' = [hpc EXCEPT ![s] = "accepted"]
  /\ client_state' = [client_state EXCEPT ![s] = "CONNECTED"]
  /\ UNCHANGED <<data, peer, should_throttle, cleaned, tasks, semaphore,
                 completed, consumed, sent, overtakes_left, walkVars, callVars>>

NewTask(u) == [url |-> WithScheme(u), pc |-> "acquire"]

\* receive_text returns; the lines are cleaned and one task per cleaned URL
\* is created (lines 158-178)
Receive(s) ==
  /\ hpc[s] = "accepted"
  /\ peer[s] = "open"
  /\ LET urls == data[s]
         c == cleaned_urls(urls)
     IN /\ should_throttle' = [should_throttle EXCEPT ![s] = ShouldThrottle(urls)]
        /\ semaphore' = [semaphore EXCEPT ![s] = CONCURRENCY_LIMIT]
        /\ cleaned' = [cleaned EXCEPT ![s] = c]
        /\ tasks' = [tasks EXCEPT ![s] = [i \in 1..Len(c) |-> NewTask(c[i])]]
  /\ hpc' = [hpc EXCEPT ![s] = "streaming"]
  /\ UNCHANGED <<data, client_state, peer, completed, consumed, sent, overtakes_left, walkVars, callVars>>

\* receive_text raises WebSocketDisconnect (lines 158, 188-193)
ReceiveDisconnect(s) ==
  /\ hpc[s] = "accepted"
  /\ peer[s] = "gone"
  /\ hpc' = [hpc EXCEPT ![s] = "closed"]
  /\ client_state' = [client_state EXCEPT ![s] = "DISCONNECTED"]
  /\ UNCHANGED <<data, peer, should_throttle, cleaned, tasks, semaphore,
                 completed, consumed, sent, overtakes_left, walkVars, callVars>>

\* NextYield of a loop that awaits the tasks in creation order
NextYield_Submission(s) == consumed[s] + 1

\* the task as_completed yields next: the earliest finished one not yet
\* yielded (line 180)
NextYield(s) == completed[s][consumed[s] + 1]

\* one pass of the as_completed loop: the next finished task's result is
\* sent if the channel counts as connected (lines 180-183)
Emit(s) ==
  /\ hpc[s] = "streaming"
  /\ consumed[s] < Len(completed[s])
  /\ client_state[s] = "CONNECTED" => peer[s] = "open"
  /\ consumed' = [consumed EXCEPT ![s] = @ + 1]
  /\ sent' = [sent EXCEPT ![s] =
                IF client_state[s] = "CONNECTED"
                THEN Append(@, ResultMessage(tasks[s][NextYield(s)]))
                ELSE @]
  /\ UNCHANGED <<data, hpc, client_state, peer, should_throttle, cleaned, tasks,
                 semaphore, completed, overtakes_left, walkVars, callVars>>

\* What send_json raises on a channel whose peer is gone: the framework's
\* WebSocketDisconnect, or the server's own error for a closed connection
SendErrors == {"WebSocketDisconnect", "RuntimeError", "OSError"}

\* the except clauses of a handler that catches WebSocketDisconnect only
OnException_DisconnectOnly(exc) ==
  IF exc = "WebSocketDisconnect" THEN "closed" ELSE "escaped"

\* the except clauses of the handler (lines 188-193): WebSocketDisconnect is
\* logged, every other Exception is logged too, and the handler returns
OnException(exc) ==
  IF exc = "WebSocketDisconnect" THEN "closed"
  ELSE IF exc \in {"RuntimeError", "OSError"} THEN "closed"
  ELSE "escaped"

\* send_json raises on a channel whose peer is gone; the handler's except
\* blocks end it (lines 183, 188-193)
EmitRaises(s) ==
  /\ hpc[s] = "streaming"
  /\ consumed[s] < Len(completed[s])
  /\ client_state[s] = "CONNECTED"
  /\ peer[s] = "gone"
  /\ \E exc \in SendErrors : hpc' = [hpc EXCEPT ![s] = OnException(exc)]
  /\ UNCHANGED <<data, client_state, peer, should_throttle, cleaned, tasks,
                 semaphore, completed, consumed, sent, overtakes_left, walkVars, callVars>>

\* the as_completed loop has yielded every task (line 180)
AllConsumed_Any(s) == consumed[s] >= 1 \/ tasks[s] = <<>>

AllConsumed(s) == consumed[s] = Len(tasks[s])

\* after the loop: the done marker, then the handler ends (lines 185-193)
SendDone(s) ==
  /\ hpc[s] = "streaming"
  /\ AllConsumed(s)
  /\ client_state[s] = "CONNECTED" => peer[s] = "open"
  /\ hpc' = [hpc EXCEPT ![s] = "closed"]
  /\ sent' = [sent EXCEPT ![s] =
                IF client_state[s] = "CONNECTED"
                THEN Append(@, DoneMessage) ELSE @]
  /\ UNCHANGED <<data, client_state, peer, should_throttle, cleaned, tasks,
                 semaphore, completed, consumed, overtakes_left, walkVars, callVars>>

\* the send of the done marker raises on a channel whose peer is gone
\* (lines 186, 188-193)
SendDoneRaises(s) ==
  /\ hpc[s] = "streaming"
  /\ AllConsumed(s)
  /\ client_state[s] = "CONNECTED"
  /\ peer[s] = "gone"
  /\ \E exc \in SendErrors : hpc' = [hpc EXCEPT ![s] = OnException(exc)]
  /\ UNCHANGED <<data, client_state, peer, should_throttle, cleaned, tasks,
                 semaphore, completed, consumed, sent, overtakes_left, walkVars, callVars>>

\* the peer closes the channel
PeerLeaves(s) ==
  /\ hpc[s] \in {"accepted", "streaming"}
  /\ peer[s] = "open"
  /\ peer' = [peer EXCEPT ![s] = "gone"]
  /\ UNCHANGED <<data, hpc, client_state, should_throttle, cleaned, tasks,
                 semaphore, completed, consumed, sent, overtakes_left, walkVars, callVars>>

\* ------------------------------------------------------------------------
\* The tasks (bound_check)
\* ------------------------------------------------------------------------
\* SemAcquire on one limiter shared by all sessions
GlobalAcquire(sem, s) == [t \in DOMAIN sem |-> sem[t] - 1]

\* semaphore.acquire of session s's limiter
SemAcquire(sem, s) == [sem EXCEPT ![s] = @ - 1]

\* SemRelease of a limiter that loses the slot
SemRelease_Leak(sem, s) == sem

\* semaphore.release of session s's limiter (leaving async with, line 166)
SemRelease(sem, s) == [sem EXCEPT ![s] = @ + 1]

\* CanAcquire of a limiter that never blocks
NeverLocked(sem, s) == TRUE

\* the semaphore admits an acquire
CanAcquire(sem, s) == sem[s] > 0

\* the oldest task still waiting for the limiter (the semaphore wakes its
\* waiters in arrival order, and tasks arrive in creation order)
TasksAt(s, pc) == {i \in 1..Len(tasks[s]) : tasks[s][i].pc = pc}

FirstIn(s, pc) == CHOOSE i \in TasksAt(s, pc) : \A j \in TasksAt(s, pc) : i <= j

\* async with semaphore: entered (lines 166-168)
TaskAcquire(s) ==
  /\ TasksAt(s, "acquire") # {}
  /\ CanAcquire(semaphore, s)
  /\ semaphore' = SemAcquire(semaphore, s)
  /\ tasks' = [tasks EXCEPT ![s][FirstIn(s, "acquire")].pc =
                 IF should_throttle[s] THEN "sleep" ELSE "walk"]
  /\ UNCHANGED <<data, hpc, client_state, peer, should_throttle, cleaned,
                 completed, consumed, sent, overtakes_left, walkVars, callVars>>

\* asyncio.sleep(0.1) is over (line 168); equal delays end in the order they
\* began
TaskWake(s) ==
  /\ TasksAt(s, "sleep") # {}
  /\ tasks' = [tasks EXCEPT ![s][FirstIn(s, "sleep")].pc = "walk"]
  /\ UNCHANGED <<data, hpc, client_state, peer, should_throttle, cleaned,
                 semaphore, completed, consumed, sent, overtakes_left, walkVars, callVars>>

\* check_url_status returns and the slot is released (line 169)
TaskFinish(s) ==
  \E i \in 1..Len(tasks[s]) :
    LET overtakes == \E j \in 1..(i - 1) : Holding(tasks[s][j])
    IN /\ tasks[s][i].pc = "walk"
       /\ overtakes => overtakes_left[s] > 0
       /\ overtakes_left' =
            [overtakes_left EXCEPT ![s] = IF overtakes THEN @ - 1 ELSE @]
       /\ tasks' = [tasks EXCEPT ![s][i].pc = "done"]
       /\ semaphore' = SemRelease(semaphore, s)
       /\ completed' = [completed EXCEPT ![s] = Append(@, i)]
       /\ UNCHANGED <<data, hpc, client_state, peer, should_throttle, cleaned,
                      consumed, sent, walkVars, callVars>>

NextHandler ==
  \E s \in Sessions :
     \/ Accept(s)
     \/ Receive(s)
     \/ ReceiveDisconnect(s)
     \/ Emit(s)
     \/ EmitRaises(s)
     \/ SendDone(s)
     \/ SendDoneRaises(s)
     \/ PeerLeaves(s)

NextTasks ==
  \E s \in Sessions : TaskAcquire(s) \/ TaskWake(s) \/ TaskFinish(s)

\* ------------------------------------------------------------------------
\* The classifier calls and the IP oracle, one suspension point per action
\* ------------------------------------------------------------------------
Calls == {1, 2}

\* Header values of the environment
V_one == <<"1">>

V_nginx == <<"n","g","i","n","x">>

V_AmazonS3 == <<"A","m","a","z","o","n","S","3">>

V_AkamaiGHost == <<"A","k","a","m","a","i","G","H","o","s","t">>

V_Apache == <<"A","p","a","c","h","e">>

V_origin == <<"o","r","i","g","i","n">>

V_clientlibsLink == <<"<">> \o W_clientlibs \o <<"/","a",".","c","s","s",">">>

V_otherLink == <<"<","/","a",".","c","s","s",">">>

\* A header is absent (<<>>) or present with one value (<<value>>); the
\* names arrive in lower case from the HTTP client, so that line 60 leaves
\* them as they are.
Absent == <<>>

HeaderChoices ==
  [cc : {Absent, <<V_one>>},
   sv : {Absent, << <<>> >>, <<V_AkamaiGHost>>, <<V_Apache>>, <<V_nginx>>, <<V_AmazonS3>>},
   st : {Absent, <<T_cacheHit>>, <<T_cacheMiss>>, <<V_origin>>},
   xr : {Absent, <<V_one>>},
   xd : {Absent, <<V_one>>},
   xa : {Absent, <<V_one>>},
   lk : {Absent, <<V_clientlibsLink>>, <<V_otherLink>>},
   bt : {Absent, <<V_clientlibsLink>>}]

HeaderPairs(ch) ==
  {<<"cache-control", ch.cc>>, <<"server", ch.sv>>, <<"server-timing", ch.st>>,
   <<"x-akamai-request-id", ch.xr>>, <<"x-dispatcher", ch.xd>>,
   <<"x-aem-instance", ch.xa>>, <<"link", ch.lk>>, <<"baqend-tags", ch.bt>>}

\* the headers dict of a choice
ToHeaders(ch) ==
  LET present == {q \in HeaderPairs(ch) : q[2] # Absent}
  IN [n \in {q[1] : q \in present} |-> (CHOOSE q \in present : q[1] = n)[2][1]]

NoHeaders == [n \in {} |-> <<>>]

\* the hosts of the classified URLs
H_BMW == <<"w","w","w",".","B","M","W",".","d","e">>

H_mini == <<"m","i","n","i",".","d","e">>

ClassHosts == {H_a, H_BMW, H_mini}

\* urlparse(url).hostname: the host in lower case
urlparse_hostname(h) == Lower(h)

\* The answers of the DNS collaborator: an address inside the Akamai ranges,
\* one outside, or a failed lookup
IP_akamai == <<184, 24, 5, 1>>

IP_other == <<93, 184, 216, 34>>

DnsAnswers == {IP_akamai, IP_other, NoIp}

\* ip_cache[hostname] = ip (line 45)
CachePut(cache, hostname, ip) ==
  [h \in DOMAIN cache \cup {hostname} |-> IF h = hostname THEN ip ELSE cache[h]]

\* the caches a call can find: empty, or holding the host's address
StartCaches(h) ==
  {EmptyCache} \cup {CachePut(EmptyCache, urlparse_hostname(h), ip) : ip \in {IP_akamai, IP_other}}

\* the calls of `active` are about to be made on the headers hs of a
\* response from host h
CallStarts(active, hs, h) ==
  /\ headers_in = hs
  /\ host_in = h
  /\ cpc = [c \in Calls |-> IF c \in active THEN "start" ELSE "off"]
  /\ label = [c \in Calls |-> <<>>]
  /\ cache_seen = [c \in Calls |-> EmptyCache]
  /\ lookup_ip = [c \in Calls |-> NoIp]
  /\ ret_ip = [c \in Calls |-> NoIp]
  /\ looked_up = {}

\* resolve_ip_async has to ask the DNS collaborator (lines 42-44)
MissesCache(hostname, cache) == hostname # <<>> /\ hostname \notin DOMAIN cache

\* the call returns without a suspension: by the host rule, by the Server
\* header, or with what resolve_ip_async returns at once (lines 60-87, 42-43)
ClassifyReturns(c) ==
  LET hostname == urlparse_hostname(host_in)
      asks == ReachesResolve(headers_in, hostname)
  IN /\ cpc[c] = "start"
     /\ ~(asks /\ MissesCache(hostname, ip_cache))
     /\ cpc' = [cpc EXCEPT ![c] = "done"]
     /\ cache_seen' = [cache_seen EXCEPT ![c] = ip_cache]
     /\ label' = [label EXCEPT ![c] =
                    get_server_name_advanced(headers_in, hostname, ip_cache, NoIp).label]
     /\ ret_ip' = [ret_ip EXCEPT ![c] =
                     IF asks THEN resolve_ip(hostname, ip_cache, NoIp).ip ELSE NoIp]
     /\ UNCHANGED <<headers_in, host_in, lookup_ip, looked_up, ip_cache, walkOnly, batchVars>>

\* the call finds no cache entry and awaits the DNS collaborator (line 44)
ClassifyLooksUp(c) ==
  LET hostname == urlparse_hostname(host_in)
  IN /\ cpc[c] = "start"
     /\ ReachesResolve(headers_in, hostname)
     /\ MissesCache(hostname, ip_cache)
     /\ cpc' = [cpc EXCEPT ![c] = "lookup"]
     /\ cache_seen' = [cache_seen EXCEPT ![c] = ip_cache]
     /\ UNCHANGED <<headers_in, host_in, label, lookup_ip, ret_ip, looked_up,
                    ip_cache, walkOnly, batchVars>>

\* the lookup is over: an address is stored and returned, a failure returns
\* None and stores nothing (lines 44-48); the rest of the classifier runs
\* with the address the call itself got (lines 77-87)
LookupReturns(c) ==
  LET hostname == urlparse_hostname(host_in)
  IN /\ cpc[c] = "lookup"
     /\ \E answer \in DnsAnswers :
          LET r == get_server_name_advanced(headers_in, hostname, EmptyCache, answer)
          IN /\ lookup_ip' = [lookup_ip EXCEPT ![c] = answer]
             /\ ret_ip' = [ret_ip EXCEPT ![c] = resolve_ip(hostname, EmptyCache, answer).ip]
             /\ label' = [label EXCEPT ![c] = r.label]
             /\ ip_cache' = IF hostname \in DOMAIN r.cache
                            THEN CachePut(ip_cache, hostname, r.cache[hostname])
                            ELSE ip_cache
     /\ looked_up' = looked_up \cup {hostname}
     /\ cpc' = [cpc EXCEPT ![c] = "done"]
     /\ UNCHANGED <<headers_in, host_in, cache_seen, walkOnly, batchVars>>

NextCalls ==
  \E c \in Calls : ClassifyReturns(c) \/ ClassifyLooksUp(c) \/ LookupReturns(c)

\* ------------------------------------------------------------------------
\* Specifications
\* ------------------------------------------------------------------------
vars == <<walkVars, batchVars, callVars>>

NoSessions == BatchStarts({}, <<>>, 0)

NoWalk == WalkStarts(Url(<<>>, ""))

NoCalls == CallStarts({}, NoHeaders, <<>>)

\* one walk, the responses chosen by the environment
Init == (\E u \in StartUrls : WalkStarts(u)) /\ NoSessions /\ NoCalls

Next == NextWalk

Spec == Init /\ [][Next]_vars

\* the cleaning of an input and the launch of its tasks
InitClean ==
  /\ NoWalk
  /\ NoCalls
  /\ \E input \in CleanInputs :
        BatchStarts({1}, <<input>>, 0)

NextClean == Accept(1) \/ Receive(1)

SpecClean == InitClean /\ [][NextClean]_vars

\* one small batch, its walks finishing in any order
InitBatch ==
  /\ NoWalk
  /\ NoCalls
  /\ \E input \in BatchInputs :
        BatchStarts({1}, <<input>>, MaxOvertake)

NextBatch == NextHandler \/ NextTasks

SpecBatch == InitBatch /\ [][NextBatch]_vars

\* two sessions at once, one with more walks than the limiter admits; the
\* walks of a session finish in launch order
InitLimit ==
  /\ NoWalk
  /\ NoCalls
  /\ BatchStarts(Sessions, <<OverLimitInput, ThrottledInput>>, 0)

SpecLimit == InitLimit /\ [][NextBatch]_vars

\* ------------------------------------------------------------------------
\* Properties of the walk
\* ------------------------------------------------------------------------
Done == wpc = "done"

Chain == result.redirectChain

LastAnswered == last_outcome.kind = "response"

LastIsFinalSuccess ==
  /\ LastAnswered
  /\ ~is_redirect(last_outcome.status)
  /\ last_outcome.status < 400

LastIsSelfRedirect ==
  /\ LastAnswered
  /\ is_redirect(last_outcome.status)
  /\ last_outcome.location # NoLocation
  /\ urljoin(EffectiveUrl(last_request), last_outcome.location) = last_request

\* C1: the redirectChain of every returned UrlResult has at most
\* MAX_REDIRECTS (15) hop records, on success and on every failure.
C1_ChainAtMostMax == Done => Len(Chain) <= MAX_REDIRECTS

\* C2: a walk whose last response is a non-redirect with status below 400
\* returns comment "OK" with one hop recorded and "Redirect Chain" with more,
\* for every chain length from 1 to 15.
C2_SuccessComment ==
  (Done /\ LastIsFinalSuccess) =>
     result.comment = (IF Len(Chain) = 1 THEN C_OK ELSE C_RedirectChain)

\* C3: the number of hop records of the returned chain equals the number of
\* GET requests of the walk that completed with a response.
C3_OneHopPerResponse == Done => Len(Chain) = responses

\* C4: every failure is returned with the comment the failure table gives
\* for its kind; a failure that is none of the six named kinds yields
\* "An unexpected error occurred".
C4_CommentFromTable ==
  Done =>
    /\ last_outcome.kind = "timeout" => result.comment = C_Timeout
    /\ last_outcome.kind = "network" => result.comment = C_Network
    /\ last_outcome.kind = "other" => result.comment = C_Unexpected
    /\ result.comment \in
         {C_OK, C_RedirectChain, C_Timeout, C_Network, C_MissingLocation,
          C_SelfLoop, C_TooMany, C_Unexpected}
         \cup {HttpErrorComment(s) : s \in {x \in Statuses : x >= 400}}

\* C5: when a redirect's Location, resolved against the effective URL,
\* equals the URL just requested, the walk has returned with comment
\* "URL redirects to itself in a loop" and that hop is the last record.
C5_SelfRedirectStops ==
  LastIsSelfRedirect =>
    /\ Done
    /\ result.comment = C_SelfLoop
    /\ Chain # <<>>
    /\ Chain[Len(Chain)].url = EffectiveUrl(last_request)
    /\ Chain[Len(Chain)].status = last_outcome.status
    /\ Len(Chain) = requests

\* a self-redirect after at least one followed redirect, on a URL whose
\* effective form differs from the requested one
C5_Witness ==
  /\ LastIsSelfRedirect
  /\ Done
  /\ Len(Chain) >= 2
  /\ EffectiveUrl(last_request) # last_request

\* C6: status and serverName of a returned UrlResult are those of the first
\* hop record, or "Error" and "N/A" when the chain is empty; url is the URL
\* the walk was started with.
C6_FirstHopFields ==
  Done =>
    /\ result.url = url
    /\ Chain # <<>> => /\ result.status = Chain[1].status
                       /\ result.serverName = Chain[1].serverName
    /\ Chain = <<>> => /\ result.status = "Error"
                       /\ result.serverName = L_NA

\* a returned chain whose first and last hops differ in status, server name
\* and URL
C6_Witness ==
  /\ Done
  /\ Len(Chain) >= 2
  /\ Chain[1].status # Chain[Len(Chain)].status
  /\ Chain[1].serverName # Chain[Len(Chain)].serverName
  /\ result.url # Chain[Len(Chain)].url

\* ------------------------------------------------------------------------
\* Properties of the batch
\* ------------------------------------------------------------------------
Launched(s) == hpc[s] \in {"streaming", "closed"} /\ semaphore[s] + Len(tasks[s]) > 0

RECURSIVE SumInFlight(_)
SumInFlight(S) ==
  IF S = {} THEN 0
  ELSE LET s == CHOOSE x \in S : TRUE
       IN Cardinality(InFlight(s)) + SumInFlight(S \ {s})

TotalInFlight == SumInFlight(Sessions)

\* C7: within a batch at most 25 walks are in flight; a walk runs only while
\* it holds a slot of the limiter, and the slot is free again when the walk
\* has ended, in success or in failure: the free slots are always
\* 25 less the walks in flight.
C7_LimiterBounds ==
  \A s \in Sessions :
     /\ Cardinality(InFlight(s)) <= CONCURRENCY_LIMIT
     /\ Launched(s) => semaphore[s] = CONCURRENCY_LIMIT - Cardinality(InFlight(s))

\* the limiter is full, the walk that had to wait has been admitted after a
\* failed walk released its slot
C7_Witness ==
  /\ Cardinality(InFlight(1)) = CONCURRENCY_LIMIT
  /\ tasks[1][CONCURRENCY_LIMIT + 1].pc = "walk"
  /\ \E i \in 1..Len(tasks[1]) : tasks[1][i].pc = "done" /\ WalkFails(tasks[1][i].url)

\* C8 as stated: over all sessions of the process at most 25 walks are in
\* flight.
C8_GlobalLimit == TotalInFlight <= CONCURRENCY_LIMIT

\* C8 as amended: each session has a limiter of its own.  The walks in
\* flight over all sessions number at most 25 per launched session, and a
\* session with fewer than 25 walks in flight has a free slot whatever the
\* other sessions hold.
C8_PerSessionLimit ==
  /\ TotalInFlight <= CONCURRENCY_LIMIT * Cardinality({s \in Sessions : Launched(s)})
  /\ \A s \in Sessions :
        (Launched(s) /\ Cardinality(InFlight(s)) < CONCURRENCY_LIMIT) => semaphore[s] > 0

\* two sessions with more than 25 walks in flight between them
C8_Witness ==
  /\ TotalInFlight > CONCURRENCY_LIMIT
  /\ \A s \in Sessions : InFlight(s) # {}

\* C9: the throttle is enabled for a batch if and only if more than 50 URLs
\* are left after trimming, dropping empty lines and deduplicating.
C9_ThrottleIffManyUrls ==
  \A s \in Sessions :
     hpc[s] = "streaming" => (should_throttle[s] <=> Len(tasks[s]) > THROTTLE_OVER)

\* t is line l without its leading and trailing whitespace
IsTrimOf(t, l) ==
  \E i \in 0..Len(l) : \E j \in 0..(Len(l) - i) :
     /\ t = SubSeq(l, i + 1, Len(l) - j)
     /\ \A k \in 1..i : l[k] \in Whitespace
     /\ \A k \in (Len(l) - j + 1)..Len(l) : l[k] \in Whitespace
     /\ t # <<>> => (t[1] \notin Whitespace /\ t[Len(t)] \notin Whitespace)

BeginsWith(t, p) == Len(t) >= Len(p) /\ \A k \in 1..Len(p) : t[k] = p[k]

FirstSeen(t, lines) ==
  CHOOSE k \in 1..Len(lines) :
     /\ IsTrimOf(t, lines[k])
     /\ \A m \in 1..(k - 1) : ~IsTrimOf(t, lines[m])

\* C10: one walk is launched per distinct non-empty trimmed line, in
\* first-seen order; its URL is the trimmed line when that starts with
\* http:// or https://, otherwise the trimmed line after https://; blank
\* lines launch nothing.
C10_OneWalkPerEntry ==
  \A s \in Sessions :
     hpc[s] = "streaming" =>
       LET lines == data[s]
           entry == cleaned[s]
           n == Len(tasks[s])
       IN /\ Len(entry) = n
          /\ \A i \in 1..n :
                /\ entry[i] # <<>>
                /\ \E k \in 1..Len(lines) : IsTrimOf(entry[i], lines[k])
                /\ tasks[s][i].url =
                     (IF BeginsWith(entry[i], S_http) \/ BeginsWith(entry[i], S_https)
                      THEN entry[i] ELSE S_https \o entry[i])
          /\ \A k \in 1..Len(lines) :
                IsTrimOf(<<>>, lines[k]) \/ \E i \in 1..n : IsTrimOf(entry[i], lines[k])
          /\ \A i, j \in 1..n :
                i < j => /\ entry[i] # entry[j]
                         /\ FirstSeen(entry[i], lines) < FirstSeen(entry[j], lines)

\* an input with a blank line, an entry repeated with other padding, an entry
\* with a scheme and one without
C10_Witness ==
  /\ hpc[1] = "streaming"
  /\ \E k \in 1..Len(data[1]) : IsTrimOf(<<>>, data[1][k])
  /\ \E k, m \in 1..Len(data[1]) : \E i \in 1..Len(cleaned[1]) :
        /\ data[1][k] # data[1][m]
        /\ IsTrimOf(cleaned[1][i], data[1][k])
        /\ IsTrimOf(cleaned[1][i], data[1][m])
  /\ \E i \in 1..Len(tasks[1]) : tasks[1][i].url = cleaned[1][i]
  /\ \E i \in 1..Len(tasks[1]) : tasks[1][i].url # cleaned[1][i]


\* small batches with walks finishing in any order, and a batch with more
\* walks than the limiter admits, its walks finishing in launch order
InitStream ==
  /\ NoWalk
  /\ NoCalls
  /\ \/ \E input \in BatchInputs : BatchStarts({1}, <<input>>, MaxOvertake)
     \/ BatchStarts({1}, <<OverLimitInput>>, 0)

SpecStream == InitStream /\ [][NextBatch]_vars

\* one classifier call on every combination of headers, host and cache
InitClassify ==
  /\ NoSessions
  /\ \E ch \in HeaderChoices, h \in ClassHosts :
        /\ CallStarts({1}, ToHeaders(ch), h)
        /\ \E cache \in StartCaches(h) : WalkStartsWith(Url(<<>>, ""), cache)

SpecClassify == InitClassify /\ [][NextCalls]_vars

\* the responses two walks classify at the same time: with and without the
\* host rule's header, a Server header and a Server-Timing header
OracleChoices ==
  {ch \in HeaderChoices :
     /\ ch.sv \in {Absent, <<V_nginx>>}
     /\ ch.st \in {Absent, <<V_origin>>}
     /\ ch.xr = Absent /\ ch.xd = Absent /\ ch.xa = Absent
     /\ ch.lk = Absent /\ ch.bt = Absent}

\* two classifier calls of different walks on responses with the same
\* headers from the same host, in any interleaving
InitOracle ==
  /\ NoSessions
  /\ \E ch \in OracleChoices, h \in ClassHosts :
        /\ CallStarts(Calls, ToHeaders(ch), h)
        /\ \E cache \in StartCaches(h) : WalkStartsWith(Url(<<>>, ""), cache)

SpecOracle == InitOracle /\ [][NextCalls]_vars

\* Fair scheduling: the event loop runs every task and the handler whenever
\* they can run, every sleep ends and every walk returns.  Nothing obliges
\* the peer to send its message or to leave.
Fairness ==
  \A s \in Sessions :
    /\ WF_vars(TaskAcquire(s))
    /\ WF_vars(TaskWake(s))
    /\ WF_vars(TaskFinish(s))
    /\ WF_vars(Emit(s))
    /\ WF_vars(EmitRaises(s))
    /\ WF_vars(SendDone(s))
    /\ WF_vars(SendDoneRaises(s))

SpecFair == InitStream /\ [][NextBatch]_vars /\ Fairness

\* ------------------------------------------------------------------------
\* The emitted stream
\* ------------------------------------------------------------------------
Results(s) == SelectSeq(sent[s], LAMBDA m : m.type = "result")

Markers(s) == SelectSeq(sent[s], LAMBDA m : m.type = "done")

\* how many entries of the sequence q satisfy equal m
Count(q, m) == Cardinality({k \in 1..Len(q) : q[k] = m})

\* the results of the walks of session s that have finished
Finished(s) == [k \in 1..Len(completed[s]) |-> ResultMessage(tasks[s][completed[s][k]])]

AllResults(s) == [i \in 1..Len(tasks[s]) |-> ResultMessage(tasks[s][i])]

\* C11: while the channel stays connected the stream holds no more results
\* than walks have finished, result by result; the done marker comes at
\* most once, as the last message, only after every walk has finished and
\* exactly one result per launched walk was emitted; and a handler that has
\* ended on a connected channel has emitted the marker.
C11_OneResultPerWalkThenDone ==
  \A s \in Sessions :
    peer[s] = "open" =>
      /\ \A m \in {sent[s][k] : k \in 1..Len(sent[s])} :
            m.type = "result" => Count(Results(s), m) <= Count(Finished(s), m)
      /\ Len(Markers(s)) <= 1
      /\ \A k \in 1..Len(sent[s]) : sent[s][k].type = "done" => k = Len(sent[s])
      /\ Markers(s) # <<>> =>
            /\ \A i \in 1..Len(tasks[s]) : tasks[s][i].pc = "done"
            /\ Len(Results(s)) = Len(tasks[s])
            /\ \A m \in {AllResults(s)[i] : i \in 1..Len(tasks[s])} :
                  Count(Results(s), m) = Count(AllResults(s), m)
      /\ hpc[s] = "closed" => Markers(s) # <<>>

\* a batch of several walks, two of them of the same URL, has ended on a
\* connected channel
C11_Witness ==
  /\ hpc[1] = "closed"
  /\ peer[1] = "open"
  /\ Len(tasks[1]) = 3
  /\ tasks[1][1].url = tasks[1][3].url
  /\ Len(sent[1]) = 4


\* C12: under fair scheduling every launched batch completes: every walk
\* queued on the limiter leaves the queue, every walk finishes, the handler
\* ends, and the done marker is emitted unless the peer has left.
C12_BatchCompletes ==
  \A s \in Sessions :
    /\ (hpc[s] = "streaming") ~> (TasksAt(s, "acquire") = {})
    /\ (hpc[s] = "streaming") ~> (\A i \in 1..Len(tasks[s]) : tasks[s][i].pc = "done")
    /\ (hpc[s] = "streaming") ~> (hpc[s] = "closed")
    /\ (hpc[s] = "streaming") ~> (peer[s] = "gone" \/ Markers(s) # <<>>)

\* a batch of more walks than the limiter admits has ended with the marker
C12_Witness ==
  /\ Len(tasks[1]) > CONCURRENCY_LIMIT
  /\ hpc[1] = "closed"
  /\ peer[1] = "open"
  /\ Markers(1) # <<>>
  /\ \E i \in 1..Len(tasks[1]) : WalkFails(tasks[1][i].url)
  /\ \E i \in 1..Len(tasks[1]) : ~WalkFails(tasks[1][i].url)


\* C13: once the peer of a session has left, no step delivers a further
\* message (result or done marker) to it, and no step of the handler lets an
\* exception leave it.
C13_NothingAfterDisconnect ==
  [][\A s \in Sessions :
       /\ peer[s] = "gone" => sent'[s] = sent[s]
       /\ hpc'[s] # "escaped"]_vars

\* the peer left between two results and the handler has ended
C13_Witness ==
  /\ peer[1] = "gone"
  /\ hpc[1] = "closed"
  /\ Len(tasks[1]) >= 2
  /\ Len(sent[1]) = 1
  /\ consumed[1] = 1
  /\ Len(completed[1]) >= 2


\* q is an initial part of r
IsPrefix(q, r) == Len(q) <= Len(r) /\ \A k \in 1..Len(q) : q[k] = r[k]

\* C18: the results are emitted in the order in which the walks finished:
\* the emitted results are an initial part of the finished walks' results
\* in completion order, and all of the yielded ones while the peer is there.
C18_CompletionOrder ==
  \A s \in Sessions :
    /\ IsPrefix(Results(s), Finished(s))
    /\ peer[s] = "open" /\ hpc[s] = "streaming" => Len(Results(s)) = consumed[s]

\* the second walk finished before the first, and its result was sent while
\* the first was still in flight
C18_Witness ==
  /\ peer[1] = "open"
  /\ Len(tasks[1]) >= 2
  /\ tasks[1][1].pc = "walk"
  /\ completed[1] = <<2>>
  /\ sent[1] = <<ResultMessage(tasks[1][2])>>
  /\ tasks[1][2].url # tasks[1][1].url

\* a result was sent while walks were in flight and others still queued on
\* the limiter
C18_SentWhileQueued ==
  /\ peer[1] = "open"
  /\ Results(1) # <<>>
  /\ Len(tasks[1]) > CONCURRENCY_LIMIT
  /\ Cardinality(TasksAt(1, "walk")) = CONCURRENCY_LIMIT - 1
  /\ TasksAt(1, "acquire") # {}


\* ------------------------------------------------------------------------
\* The classifier against its decision order
\* ------------------------------------------------------------------------
\* the value with its first character in upper case, the rest as it is
FirstUpper(v) == IF v = <<>> THEN v ELSE <<UpperChar(v[1])>> \o Tail(v)

\* the value in lower case with its first character in upper case
LowerFirstUpper(v) == FirstUpper(Lower(v))

Present(hs, name) == name \in DOMAIN hs

ValueOf(hs, name) == IF Present(hs, name) THEN hs[name] ELSE <<>>

\* the label the first-match decision order gives to headers hs from host
\* h when the oracle resolves h to ip; Cap names a Server value that is
\* neither Akamai's nor Apache's
DecisionOrder(hs, h, ip, Cap(_)) ==
  LET sv == ValueOf(hs, "server")
      st == ValueOf(hs, "server-timing")
      hasAkamaiCache == Contains(st, T_cacheHit) \/ Contains(st, T_cacheMiss)
      hasAkamaiRequestId == Present(hs, "x-akamai-request-id")
      hasDispatcher == Present(hs, "x-dispatcher") \/ Present(hs, "x-aem-instance")
      hasAemPaths == \/ Contains(ValueOf(hs, "link"), W_clientlibs)
                     \/ Contains(ValueOf(hs, "baqend-tags"), W_clientlibs)
      isAkamaiIp == is_akamai_ip(ip)
  IN CASE (Contains(Lower(h), W_bmw) \/ Contains(Lower(h), W_mini))
            /\ Present(hs, "cache-control")                        -> L_ApacheAEM
       [] OTHER ->
     CASE sv # <<>> /\ (Contains(Lower(sv), W_akamai) \/ Contains(Lower(sv), W_ghost))
                                                                    -> L_Akamai
       [] sv # <<>> /\ Contains(Lower(sv), W_apache)                -> L_ApacheAEM
       [] sv # <<>>                                                 -> Cap(sv)
       [] OTHER ->
     CASE hasAkamaiCache \/ hasAkamaiRequestId \/ (st # <<>> /\ isAkamaiIp)
                       -> (IF hasAemPaths \/ hasDispatcher THEN L_ApacheAEM ELSE L_Akamai)
       [] OTHER ->
     IF hasDispatcher \/ hasAemPaths THEN L_ApacheAEM
     ELSE IF isAkamaiIp THEN L_Akamai
     ELSE L_Unknown

\* C14 (as stated): every returned label is the one the decision order
\* gives, a Server value that is neither Akamai's nor Apache's being
\* returned with its first character capitalized.
C14_LabelAsSpecified ==
  \A c \in Calls :
    cpc[c] = "done" =>
      label[c] = DecisionOrder(headers_in, host_in, ret_ip[c], FirstUpper)

\* C14 (amended): every returned label is the one the decision order gives,
\* a Server value that is neither Akamai's nor Apache's being returned in
\* lower case with its first character capitalized.
C14_DecisionOrder ==
  \A c \in Calls :
    cpc[c] = "done" =>
      label[c] = DecisionOrder(headers_in, host_in, ret_ip[c], LowerFirstUpper)

\* a Server header that names neither Akamai nor Apache won over the
\* secondary signals
C14_Witness ==
  /\ cpc[1] = "done"
  /\ ValueOf(headers_in, "server") = V_AmazonS3
  /\ Present(headers_in, "x-dispatcher")
  /\ Present(headers_in, "x-akamai-request-id")
  /\ label[1] = <<"A","m","a","z","o","n","s","3">>


\* ------------------------------------------------------------------------
\* The classifier and the oracle under two calls
\* ------------------------------------------------------------------------
\* C15: two calls that were given the same headers and the same URL and
\* found the same IP cache return the same label.
C15_SameInputsSameLabel ==
  \A c, d \in Calls :
    cpc[c] = "done" /\ cpc[d] = "done" /\ cache_seen[c] = cache_seen[d]
      => label[c] = label[d]

\* C16: no call asks the DNS collaborator for a hostname whose lookup has
\* completed before, whether that lookup gave an address or failed.
C16_FailureMemoized ==
  [][\A c \in Calls :
       cpc[c] = "start" /\ cpc'[c] = "lookup"
         => urlparse_hostname(host_in) \notin looked_up]_vars

\* C19: an entry of the IP cache never changes once it is there, and a
\* resolve that returns when the entry is there returns the entry's value.
C19_EntryNeverChanges ==
  [][/\ \A h \in DOMAIN ip_cache :
          h \in DOMAIN ip_cache' /\ ip_cache'[h] = ip_cache[h]
     /\ \A c \in Calls :
          /\ cpc[c] = "lookup" /\ cpc'[c] = "done"
          /\ urlparse_hostname(host_in) \in DOMAIN ip_cache
          => ret_ip'[c] = ip_cache[urlparse_hostname(host_in)]]_vars


\* ------------------------------------------------------------------------
\* The request budget of a walk
\* ------------------------------------------------------------------------
\* C17: a walk never issues more than MAX_REDIRECTS requests, and a walk
\* whose MAX_REDIRECTS requests were all answered by a followed redirect
\* returns "Too many redirects" with one hop record per request, in request
\* order.
C17_RequestBudget ==
  /\ requests <= MAX_REDIRECTS
  /\ Len(request_log) = requests
  /\ Done /\ iteration = MAX_REDIRECTS =>
       /\ requests = MAX_REDIRECTS
       /\ result.comment = C_TooMany
       /\ Len(Chain) = MAX_REDIRECTS
       /\ \A k \in 1..Len(Chain) : Chain[k].url = EffectiveUrl(request_log[k])

\* a walk of MAX_REDIRECTS followed redirects, not all of them routine, has
\* returned
C17_Witness ==
  /\ Done
  /\ iteration = MAX_REDIRECTS
  /\ detours = MaxDetours
  /\ last_outcome.kind = "response"
  /\ is_redirect(last_outcome.status)
  /\ result.comment = C_TooMany


\* ------------------------------------------------------------------------
\* The URLs of the launched walks
\* ------------------------------------------------------------------------
\* C20 (as stated): no two walks of a batch are launched with the same URL.
C20_NoDuplicateUrls ==
  \A s \in Sessions :
    hpc[s] = "streaming" =>
      \A i, j \in 1..Len(tasks[s]) : i < j => tasks[s][i].url # tasks[s][j].url

\* C20 (amended): no two walks of a batch are launched from the same
\* entry, and two walks have the same URL only when one entry is the other
\* with https:// in front.
C20_DuplicateOnlyByScheme ==
  \A s \in Sessions :
    hpc[s] = "streaming" =>
      /\ Len(tasks[s]) = Len(cleaned[s])
      /\ \A i, j \in 1..Len(tasks[s]) :
           i < j =>
             /\ cleaned[s][i] # cleaned[s][j]
             /\ tasks[s][i].url = tasks[s][j].url =>
                  \/ cleaned[s][i] = S_https \o cleaned[s][j]
                  \/ cleaned[s][j] = S_https \o cleaned[s][i]

\* a bare entry and its https:// form were both launched, on one URL
C20_Witness ==
  /\ hpc[1] = "streaming"
  /\ \E i, j \in 1..Len(tasks[1]) :
        /\ i # j
        /\ cleaned[1][i] = X_a
        /\ cleaned[1][j] = S_https \o X_a
        /\ tasks[1][i].url = tasks[1][j].url

====
